---- MODULE Spec2Model ----
(***************************************************************************)
(* BOTC-Randomizer: the weighted sampler (sampling.py), the constraint     *)
(* protocol and scorer (constraints.py), the count rules (rules.py), the   *)
(* role lists (roles.py) and the generator's accept/reject loop            *)
(* (generator.py).                                                         *)
(*                                                                         *)
(* Numbers.  Weights, penalties, bonuses and synergy scores are floats in  *)
(* the program and integers here.  float("-inf") is the record NegInf.     *)
(* A value of rng.random() is u / UDen with u in RandVals, so that         *)
(* 0 <= u / UDen < 1; comparisons with it are cross-multiplied.            *)
(*                                                                         *)
(* The random source is a caller-owned object with state: the variable rng *)
(* holds the values it will return next and repeats them cyclically.  Init *)
(* draws it from every sequence of RandVals of the cycle's length.         *)
(***************************************************************************)
EXTENDS Integers, Sequences, FiniteSets, TLC

VARIABLES
    pc,                 \* position of the running function
    rng,                \* state of the random source
    err,                \* the exception raised, or NoError
    \* weighted_choice_without_replacement
    items, k, weights, available, chosen, draws,
    \* evaluate_constraints
    roles, constraints, logw, called, ret,
    \* generate_setup_trouble_brewing
    n_players, config, max_attempts, attempts, base,
    best_seen, best_log_score, max_log_score_seen, result, last, scored

vars == <<pc, rng, err, items, k, weights, available, chosen, draws,
          roles, constraints, logw, called, ret,
          n_players, config, max_attempts, attempts, base,
          best_seen, best_log_score, max_log_score_seen, result, last, scored>>

samplerVars == <<items, k, weights, available, chosen, draws>>
scorerVars == <<roles, constraints, logw, called, ret>>
generatorVars == <<n_players, config, max_attempts, attempts, base,
                   best_seen, best_log_score, max_log_score_seen, result, last, scored>>

----------------------------------------------------------------------------
(* Bounds of the model *)

\* number of distinct values rng.random() can return
RandSteps == 3
\* denominator of those values
UDen == 64
\* length of the random source's cycle in the calls of the sampler
TapeLen == 3
\* length of the random source's cycle in the calls of the generator
GenTapeLen == 2
\* largest max_attempts a caller passes
MaxAttempts == 3
\* longest constraint list passed to evaluate_constraints on its own
MaxConstraints == 3

----------------------------------------------------------------------------
(* Helpers *)

Range(s) == {s[i] : i \in 1..Len(s)}

Abs(x) == IF x < 0 THEN 0 - x ELSE x

MinOf(S) == CHOOSE x \in S : \A y \in S : x <= y

RECURSIVE SumTo(_, _)
\* ws[1] + ... + ws[n]
SumTo(ws, n) == IF n = 0 THEN 0 ELSE SumTo(ws, n - 1) + ws[n]

\* s without its i-th element (list.pop(idx), what is left)
RemoveAt(s, i) == [j \in 1..(Len(s) - 1) |-> IF j < i THEN s[j] ELSE s[j + 1]]

\* [r for r in order if r in picked]
RECURSIVE OrderedBy(_, _)
OrderedBy(order, picked) ==
    IF order = <<>> THEN <<>>
    ELSE IF Head(order) \in picked
         THEN <<Head(order)>> \o OrderedBy(Tail(order), picked)
         ELSE OrderedBy(Tail(order), picked)

\* Optional values
None == <<>>
Some(x) == <<x>>

\* float("-inf") and the finite floats
NegInf == [inf |-> TRUE, v |-> 0]
Fin(x) == [inf |-> FALSE, v |-> x]
\* a > b on floats that are finite or -inf
Gt(a, b) == IF a.inf THEN FALSE ELSE IF b.inf THEN TRUE ELSE a.v > b.v

\* Exceptions
NoError == [type |-> "none", msg |-> ""]
ValueError(m) == [type |-> "ValueError", msg |-> m]
RuntimeError(m) == [type |-> "RuntimeError", msg |-> m]

----------------------------------------------------------------------------
(* The random source *)

\* the values rng.random() returns, as numerators over UDen: evenly spaced from
\* 0 to the largest value below 1
RandVals == {(i * (UDen - 1)) \div (RandSteps - 1) : i \in 0..(RandSteps - 1)}

\* every state of a random source whose cycle has n values
RngStates(n) == [1..n -> RandVals]

\* rng.random(): the value returned
Random(g) == Head(g)
\* rng.random(): the state left behind
Advance(g) == Append(Tail(g), Head(g))

----------------------------------------------------------------------------
(* sampling.py *)

\* float(weights.get(it, 1.0))
WeightOf(w, it) == IF it \in DOMAIN w THEN w[it] ELSE 1

\* ws: max(0.0, w) for every item of the pool
ClampedWeights(pool, w) ==
    [i \in 1..Len(pool) |-> IF WeightOf(w, pool[i]) < 0 THEN 0 ELSE WeightOf(w, pool[i])]

\* the comparison r <= acc after adding ws[1..i], with r = (u / UDen) * total
Reaches(ws, total, u, i) == u * total <= SumTo(ws, i) * UDen

\* idx after the inner for loop: the first i with r <= acc, and the initial idx
\* (the first element) when no i has it
PickIndex(ws, total, u) ==
    LET hits == {i \in 1..Len(ws) : Reaches(ws, total, u, i)}
    IN  IF hits = {} THEN 1 ELSE MinOf(hits)

\* a faulty variant: the drawn item is put in front of the earlier ones
Mut_AppendChosen(ch, it) == <<it>> \o ch

\* chosen after chosen.append(chosen_item)
AppendChosen(ch, it) == Append(ch, it)

\* one iteration of the for loop over range(k)
DrawStep(pool, ch, w, g) ==
    LET ws == ClampedWeights(pool, w)
        total == SumTo(ws, Len(ws))
    IN  IF total <= 0
        THEN [err |-> ValueError("All remaining weights are zero; cannot sample."),
              available |-> pool, chosen |-> ch, rng |-> g, idx |-> 0]
        ELSE LET idx == PickIndex(ws, total, Random(g))
             IN  [err |-> NoError,
                  available |-> RemoveAt(pool, idx),
                  chosen |-> AppendChosen(ch, pool[idx]),
                  rng |-> Advance(g), idx |-> idx]

\* the argument checks before the loop
CheckK(its, kk) ==
    IF kk < 0 THEN ValueError("k must be >= 0")
    ELSE IF kk > Len(its) THEN ValueError("k cannot exceed number of available items")
    ELSE NoError

RECURSIVE SampleLoop(_, _, _, _, _)
\* the for loop, n iterations left
SampleLoop(pool, ch, w, g, n) ==
    IF n = 0 THEN [err |-> NoError, chosen |-> ch, rng |-> g]
    ELSE LET d == DrawStep(pool, ch, w, g)
         IN  IF d.err # NoError THEN [err |-> d.err, chosen |-> d.chosen, rng |-> d.rng]
             ELSE SampleLoop(d.available, d.chosen, w, d.rng, n - 1)

\* weighted_choice_without_replacement(rng, items, k, weights) as one call:
\* the exception or the list returned, and the random source afterwards
weighted_choice_without_replacement(g, its, kk, w) ==
    IF CheckK(its, kk) # NoError
    THEN [err |-> CheckK(its, kk), chosen |-> <<>>, rng |-> g]
    ELSE SampleLoop(its, <<>>, w, g, kk)

----------------------------------------------------------------------------
(* weighted_choice_without_replacement, one loop iteration per step *)

\* the candidate lists a caller passes (distinct items)
SamplerItemLists == {<<>>, <<"a">>, <<"a", "b">>, <<"a", "b", "c">>}

\* the weight a caller gives an item; an item left out of the map has none
SamplerWeightVals == {-1, 0, 3}

\* the weight maps over some of the items
SamplerWeightMaps(its) == UNION {[S -> SamplerWeightVals] : S \in SUBSET Range(its)}

\* the values of the variables a function does not use
IdleSampler ==
    /\ items = <<>> /\ k = 0 /\ available = <<>> /\ chosen = <<>> /\ draws = <<>>
IdleScorer ==
    /\ roles = {} /\ constraints = <<>> /\ logw = 0 /\ called = <<>> /\ ret = None
IdleGenerator ==
    /\ n_players = 0 /\ config = None /\ max_attempts = 0 /\ attempts = 0
    /\ base = None /\ best_seen = None /\ best_log_score = NegInf
    /\ max_log_score_seen = NegInf /\ result = None /\ last = None /\ scored = <<>>

\* a call of weighted_choice_without_replacement(rng, items, k, weights)
InitSampler ==
    /\ pc = "entry"
    /\ err = NoError
    /\ rng \in RngStates(TapeLen)
    /\ items \in SamplerItemLists
    /\ k \in -1..(Len(items) + 1)
    /\ weights \in SamplerWeightMaps(items)
    /\ available = <<>> /\ chosen = <<>> /\ draws = <<>>
    /\ IdleScorer /\ IdleGenerator

\* lines 14-20: the checks of k, then available = list(items), chosen = []
SamplerEnter ==
    /\ pc = "entry"
    /\ IF CheckK(items, k) # NoError
       THEN /\ pc' = "raised"
            /\ err' = CheckK(items, k)
            /\ UNCHANGED <<available, chosen>>
       ELSE /\ pc' = "loop"
            /\ available' = items
            /\ chosen' = <<>>
            /\ err' = err
    /\ UNCHANGED <<rng, items, k, weights, draws, scorerVars, generatorVars>>

\* lines 22-42: one iteration of for _ in range(k); draws records the pool, the
\* value of rng.random() and the index popped
SamplerIter ==
    /\ pc = "loop"
    /\ Len(chosen) < k
    /\ LET d == DrawStep(available, chosen, weights, rng)
       IN  /\ err' = d.err
           /\ pc' = IF d.err # NoError THEN "raised" ELSE "loop"
           /\ available' = d.available
           /\ chosen' = d.chosen
           /\ rng' = d.rng
           /\ draws' = IF d.err # NoError THEN draws
                       ELSE Append(draws, [pool |-> available, u |-> Random(rng),
                                           idx |-> d.idx])
    /\ UNCHANGED <<items, k, weights, scorerVars, generatorVars>>

\* line 44: return chosen
SamplerReturn ==
    /\ pc = "loop"
    /\ Len(chosen) = k
    /\ pc' = "returned"
    /\ UNCHANGED <<rng, err, samplerVars, scorerVars, generatorVars>>

NextSampler == SamplerEnter \/ SamplerIter \/ SamplerReturn

SpecSampler == InitSampler /\ [][NextSampler]_vars

----------------------------------------------------------------------------
(* constraints.py *)

\* the constraint classes, as records of their fields
HardRequireAny(S) ==
    [kind |-> "HardRequireAny", roleset |-> S, k |-> 0, l |-> 0, amount |-> 0]
HardRequireAtLeastK(S, kk) ==
    [kind |-> "HardRequireAtLeastK", roleset |-> S, k |-> kk, l |-> 0, amount |-> 0]
HardForbidAll(S) ==
    [kind |-> "HardForbidAll", roleset |-> S, k |-> 0, l |-> 0, amount |-> 0]
SoftDiscourageAll(S, penalty) ==
    [kind |-> "SoftDiscourageAll", roleset |-> S, k |-> 0, l |-> 0, amount |-> penalty]
SoftEncourageAny(S, bonus) ==
    [kind |-> "SoftEncourageAny", roleset |-> S, k |-> 0, l |-> 0, amount |-> bonus]
SoftPreferBetweenKAndL(S, kk, ll, penalty_per_step) ==
    [kind |-> "SoftPreferBetweenKAndL", roleset |-> S, k |-> kk, l |-> ll,
     amount |-> penalty_per_step]

ConstraintResult(ok, lw) == [feasible |-> ok, log_weight |-> lw]

\* a faulty variant: the penalty applies when any of the roles is in play
Mut_EvaluateDiscourageAll(c, rs) ==
    IF c.roleset \cap rs # {}
    THEN ConstraintResult(TRUE, 0 - Abs(c.amount))
    ELSE ConstraintResult(TRUE, 0)

\* SoftDiscourageAll.evaluate
EvaluateDiscourageAll(c, rs) ==
    IF c.roleset \subseteq rs
    THEN ConstraintResult(TRUE, 0 - Abs(c.amount))
    ELSE ConstraintResult(TRUE, 0)

\* SoftEncourageAny.evaluate
EvaluateEncourageAny(c, rs) ==
    IF c.roleset \cap rs # {}
    THEN ConstraintResult(TRUE, Abs(c.amount))
    ELSE ConstraintResult(TRUE, 0)

\* SoftPreferBetweenKAndL.evaluate
EvaluatePreferBetween(c, rs) ==
    LET cnt == Cardinality(c.roleset \cap rs)
        dist == IF cnt < c.k THEN c.k - cnt ELSE cnt - c.l
    IN  IF c.k <= cnt /\ cnt <= c.l
        THEN ConstraintResult(TRUE, 0)
        ELSE ConstraintResult(TRUE, (0 - Abs(c.amount)) * dist)

\* c.evaluate(roles, context): the method of c's class
Evaluate(c, rs, context) ==
    CASE c.kind = "HardRequireAny" ->
            ConstraintResult(Cardinality(c.roleset \cap rs) >= 1, 0)
      [] c.kind = "HardRequireAtLeastK" ->
            ConstraintResult(Cardinality(c.roleset \cap rs) >= c.k, 0)
      [] c.kind = "HardForbidAll" ->
            ConstraintResult(~(c.roleset \subseteq rs), 0)
      [] c.kind = "SoftDiscourageAll" -> EvaluateDiscourageAll(c, rs)
      [] c.kind = "SoftEncourageAny" -> EvaluateEncourageAny(c, rs)
      [] c.kind = "SoftPreferBetweenKAndL" -> EvaluatePreferBetween(c, rs)

\* a faulty variant: an infeasible result returns the running sum, not -inf
Mut_FoldResultScore(r, acc) ==
    IF ~r.feasible
    THEN [returns |-> TRUE, feasible |-> FALSE, score |-> Fin(acc), logw |-> acc]
    ELSE [returns |-> FALSE, feasible |-> TRUE, score |-> Fin(acc + r.log_weight),
          logw |-> acc + r.log_weight]

\* a faulty variant: an infeasible result is ignored and the loop goes on
Mut_FoldResult(r, acc) ==
    IF ~r.feasible
    THEN [returns |-> FALSE, feasible |-> TRUE, score |-> Fin(acc), logw |-> acc]
    ELSE [returns |-> FALSE, feasible |-> TRUE, score |-> Fin(acc + r.log_weight),
          logw |-> acc + r.log_weight]

\* the body of the for loop of evaluate_constraints after r = c.evaluate(...):
\* return (False, -inf), or add r.log_weight and go on
FoldResult(r, acc) ==
    IF ~r.feasible
    THEN [returns |-> TRUE, feasible |-> FALSE, score |-> NegInf, logw |-> acc]
    ELSE [returns |-> FALSE, feasible |-> TRUE, score |-> Fin(acc + r.log_weight),
          logw |-> acc + r.log_weight]

RECURSIVE EvaluateFrom(_, _, _, _, _)
\* the for loop of evaluate_constraints from the i-th constraint on
EvaluateFrom(rs, context, cs, i, acc) ==
    IF i > Len(cs) THEN [feasible |-> TRUE, score |-> Fin(acc)]
    ELSE LET f == FoldResult(Evaluate(cs[i], rs, context), acc)
         IN  IF f.returns THEN [feasible |-> f.feasible, score |-> f.score]
             ELSE EvaluateFrom(rs, context, cs, i + 1, f.logw)

\* evaluate_constraints(roles, context, constraints) as one call
evaluate_constraints(rs, context, cs) == EvaluateFrom(rs, context, cs, 1, 0)

RECURSIVE SynergySum(_, _, _)
\* s after the for loop over synergies[1..n]
SynergySum(rs, synergies, n) ==
    IF n = 0 THEN 0
    ELSE SynergySum(rs, synergies, n - 1)
         + (IF synergies[n].a \in rs /\ synergies[n].b \in rs
            THEN synergies[n].score ELSE 0)

\* log_score_from_synergies(roles, synergies, temperature)
log_score_from_synergies(rs, synergies, temperature) ==
    IF synergies = <<>> \/ temperature = 0 THEN 0
    ELSE SynergySum(rs, synergies, Len(synergies)) * temperature

----------------------------------------------------------------------------
(* evaluate_constraints, one loop iteration per step *)

\* the roles the candidate sets and rolesets of these calls are made of
ScorerRoles == {"Imp", "Baron", "Drunk"}

\* the constraints of these calls: every class, rolesets that are and are not
\* covered, amounts of both signs, bands with k <= l and with k > l
ScorerConstraints ==
    { HardRequireAny({"Baron", "Drunk"}),
      HardRequireAtLeastK({"Imp", "Baron"}, 2),
      HardForbidAll({"Imp", "Baron"}),
      SoftDiscourageAll({"Imp", "Baron"}, 3),
      SoftDiscourageAll({"Drunk"}, -2),
      SoftEncourageAny({"Baron", "Drunk"}, 2),
      SoftEncourageAny({"Imp"}, -1),
      SoftPreferBetweenKAndL(ScorerRoles, 1, 2, 2),
      SoftPreferBetweenKAndL(ScorerRoles, 2, 1, 1),
      SoftPreferBetweenKAndL({"Imp", "Drunk"}, 1, 1, -1) }

\* the context record; no built-in class reads it
ScorerContext == [n_players |-> 0, counts |-> <<>>]

\* a call of evaluate_constraints(roles, context, constraints); logw = 0.0
InitScorer ==
    /\ pc = "loop"
    /\ err = NoError
    /\ rng = <<>>
    /\ roles \in SUBSET ScorerRoles
    /\ constraints \in UNION {[1..n -> ScorerConstraints] : n \in 0..MaxConstraints}
    /\ logw = 0
    /\ called = <<>>
    /\ ret = None
    /\ weights = <<>>
    /\ IdleSampler /\ IdleGenerator

\* lines 139-143: one iteration of for c in constraints; called records the
\* position of the constraint whose evaluate ran and what it returned
ScorerIter ==
    /\ pc = "loop"
    /\ Len(called) < Len(constraints)
    /\ LET i == Len(called) + 1
           r == Evaluate(constraints[i], roles, ScorerContext)
           f == FoldResult(r, logw)
       IN  /\ called' = Append(called, [i |-> i, r |-> r])
           /\ logw' = f.logw
           /\ IF f.returns
              THEN /\ pc' = "returned"
                   /\ ret' = Some([feasible |-> f.feasible, score |-> f.score])
              ELSE /\ pc' = "loop"
                   /\ ret' = ret
    /\ UNCHANGED <<rng, err, roles, constraints, samplerVars, generatorVars>>

\* line 144: return True, logw
ScorerReturn ==
    /\ pc = "loop"
    /\ Len(called) = Len(constraints)
    /\ pc' = "returned"
    /\ ret' = Some([feasible |-> TRUE, score |-> Fin(logw)])
    /\ UNCHANGED <<rng, err, roles, constraints, logw, called, samplerVars, generatorVars>>

NextScorer == ScorerIter \/ ScorerReturn

SpecScorer == InitScorer /\ [][NextScorer]_vars

----------------------------------------------------------------------------
(* roles.py *)

TOWNFOLK_TB ==
    <<"Washerwoman", "Librarian", "Investigator", "Chef", "Empath",
      "Fortune Teller", "Undertaker", "Monk", "Ravenkeeper", "Virgin",
      "Slayer", "Soldier", "Mayor">>
OUTSIDERS_TB == <<"Butler", "Drunk", "Recluse", "Saint">>
MINIONS_TB == <<"Poisoner", "Spy", "Scarlet Woman", "Baron">>
DEMONS_TB == <<"Imp">>

ALL_ROLES_TB == TOWNFOLK_TB \o OUTSIDERS_TB \o MINIONS_TB \o DEMONS_TB

----------------------------------------------------------------------------
(* rules.py *)

Counts(t, o, m, d) == [tf |-> t, out |-> o, mn |-> m, dm |-> d]

BASE_COUNTS ==
    [n \in 5..15 |->
        CASE n = 5 -> Counts(3, 0, 1, 1)
          [] n = 6 -> Counts(3, 1, 1, 1)
          [] n = 7 -> Counts(5, 0, 1, 1)
          [] n = 8 -> Counts(5, 1, 1, 1)
          [] n = 9 -> Counts(5, 2, 1, 1)
          [] n = 10 -> Counts(7, 0, 2, 1)
          [] n = 11 -> Counts(7, 1, 2, 1)
          [] n = 12 -> Counts(7, 2, 2, 1)
          [] n = 13 -> Counts(9, 0, 3, 1)
          [] n = 14 -> Counts(9, 1, 3, 1)
          [] n = 15 -> Counts(9, 2, 3, 1)]

\* get_base_counts(n_players): the exception or the counts
get_base_counts(n) ==
    IF n \notin DOMAIN BASE_COUNTS
    THEN [err |-> ValueError("Supported player counts are 5..15 inclusive."),
          counts |-> Counts(0, 0, 0, 0)]
    ELSE [err |-> NoError, counts |-> BASE_COUNTS[n]]

\* a faulty variant: the Baron adds one Outsider instead of two
Mut_apply_outsider_mods(base_counts, included_minions) ==
    LET tf == IF "Baron" \in included_minions THEN base_counts.tf - 2 ELSE base_counts.tf
        out == IF "Baron" \in included_minions THEN base_counts.out + 1 ELSE base_counts.out
    IN  IF tf < 0
        THEN [err |-> ValueError("Invalid counts after outsider mods (Townfolk < 0)."),
              counts |-> Counts(tf, out, base_counts.mn, base_counts.dm)]
        ELSE [err |-> NoError, counts |-> Counts(tf, out, base_counts.mn, base_counts.dm)]

\* apply_outsider_mods(base_counts, included_minions): the exception or the counts
apply_outsider_mods(base_counts, included_minions) ==
    LET tf == IF "Baron" \in included_minions THEN base_counts.tf - 2 ELSE base_counts.tf
        out == IF "Baron" \in included_minions THEN base_counts.out + 2 ELSE base_counts.out
    IN  IF tf < 0
        THEN [err |-> ValueError("Invalid counts after outsider mods (Townfolk < 0)."),
              counts |-> Counts(tf, out, base_counts.mn, base_counts.dm)]
        ELSE [err |-> NoError, counts |-> Counts(tf, out, base_counts.mn, base_counts.dm)]

----------------------------------------------------------------------------
(* generator.py *)

\* RandomizerConfig(role_weights, constraints, synergies, synergy_temperature)
RandomizerConfig(rw, cs, syn, temp) ==
    [role_weights |-> rw, constraints |-> cs, synergies |-> syn,
     synergy_temperature |-> temp]

\* lines 40-44: the exception for a weight key that is no known role
CheckWeights(rw) ==
    IF \E r \in DOMAIN rw : r \notin Range(ALL_ROLES_TB)
    THEN ValueError("Unknown role in weights")
    ELSE NoError

\* lines 40-44: 1.0 for every known role, overridden by the caller's weights
FillWeights(rw) ==
    [r \in Range(ALL_ROLES_TB) |-> IF r \in DOMAIN rw THEN rw[r] ELSE 1]

\* lines 52-60: what the four draws of one attempt leave: the exception raised
\* first if any, the random source, the roles drawn and the counts used
Drawn(mn, cnt, dm, ou, tf) ==
    [err |-> IF mn.err # NoError THEN mn.err
             ELSE IF cnt.err # NoError THEN cnt.err
             ELSE IF dm.err # NoError THEN dm.err
             ELSE IF ou.err # NoError THEN ou.err
             ELSE tf.err,
     rng |-> tf.rng,
     minions |-> Range(mn.chosen),
     demons |-> dm.chosen,
     outsiders |-> ou.chosen,
     townfolk |-> tf.chosen,
     counts |-> cnt.counts]

\* line 60: townfolk, drawn after outsiders
DrawTownfolk(mn, cnt, dm, ou, w) ==
    Drawn(mn, cnt, dm, ou,
          weighted_choice_without_replacement(ou.rng, TOWNFOLK_TB, cnt.counts.tf, w))

\* line 59: outsiders, drawn after demons
DrawOutsiders(mn, cnt, dm, w) ==
    DrawTownfolk(mn, cnt, dm,
                 weighted_choice_without_replacement(dm.rng, OUTSIDERS_TB, cnt.counts.out, w),
                 w)

\* line 58: demons, drawn after the counts are adjusted
DrawDemons(mn, cnt, w) ==
    DrawOutsiders(mn, cnt,
                  weighted_choice_without_replacement(mn.rng, DEMONS_TB, cnt.counts.dm, w),
                  w)

\* lines 53-56: the counts adjusted for minions = set(mn.chosen)
AdjustCounts(mn, b, w) == DrawDemons(mn, apply_outsider_mods(b, Range(mn.chosen)), w)

\* lines 52-60: the four draws of one attempt, minions first
Propose(g, b, w) ==
    AdjustCounts(weighted_choice_without_replacement(g, MINIONS_TB, b.mn, w), b, w)

\* lines 77-87: proposal_dict, every category in the order of its script list
ProposalDict(p) ==
    [townfolk |-> OrderedBy(TOWNFOLK_TB, Range(p.townfolk)),
     outsiders |-> OrderedBy(OUTSIDERS_TB, Range(p.outsiders)),
     minions |-> OrderedBy(MINIONS_TB, p.minions),
     demons |-> OrderedBy(DEMONS_TB, Range(p.demons))]

\* 1000 * exp(d), rounded down, for an integer d
ExpMilli(d) ==
    CASE d >= 2 -> 7389
      [] d = 1 -> 2718
      [] d = 0 -> 1000
      [] d = -1 -> 367
      [] d = -2 -> 135
      [] d = -3 -> 49
      [] d = -4 -> 18
      [] d = -5 -> 6
      [] d = -6 -> 2
      [] OTHER -> 0

\* a faulty variant: the running maximum starts from 0 instead of -inf
Mut_InitialMaxLogScore == Fin(0)

\* line 48: the value max_log_score_seen starts from
InitialMaxLogScore == NegInf

\* lines 93-94: max_log_score_seen after the update
UpdatedMax(log_score, seen) == IF Gt(Fin(log_score), seen) THEN Fin(log_score) ELSE seen

\* a faulty variant: the acceptance probability is not normalised by the maximum
Mut_AcceptP(log_score, seen) == ExpMilli(log_score)

\* line 97: accept_p = exp(log_score - max_log_score_seen), in thousandths;
\* exp(+inf) is +inf
AcceptP(log_score, seen) == IF seen.inf THEN 1000000 ELSE ExpMilli(log_score - seen.v)

\* line 98: rng.random() <= accept_p, for the value u / UDen
Accepts(u, accept_p) == u * 1000 <= accept_p * UDen

----------------------------------------------------------------------------
(* generate_setup_trouble_brewing, one loop iteration per step *)

\* main.py, lines 37-44: the example role sets
TOP4 == {"Spy", "Poisoner", "Fortune Teller", "Undertaker"}
BOTTOM3 == {"Butler", "Saint", "Recluse"}
MISINFORMATION == {"Drunk", "Poisoner"}

\* main.py, lines 46-73: the example configuration
MainConfig ==
    RandomizerConfig(<<>>,
                     <<SoftDiscourageAll(TOP4, 3), SoftDiscourageAll(BOTTOM3, 2),
                       HardRequireAny(MISINFORMATION)>>,
                     <<[a |-> "Spy", b |-> "Poisoner", score |-> -2]>>, 1)

\* generator.py, lines 29-35: the configuration used when the caller gives none
DefaultConfig == RandomizerConfig(<<>>, <<>>, <<>>, 1)

\* a weight map, from the pairs given
WeightMap(pairs) == [r \in {q[1] : q \in pairs} |-> (CHOOSE q \in pairs : q[1] = r)[2]]

\* the configurations callers pass: none, the example, hard constraints that some,
\* all or no candidate sets satisfy, soft constraints and synergies of both signs,
\* weights that favour, exclude or empty a category, and an unknown weight key
GenConfigs ==
    { DefaultConfig,
      MainConfig,
      RandomizerConfig(<<>>, <<HardRequireAny({"Marionette"})>>, <<>>, 1),
      RandomizerConfig(<<>>,
                       <<SoftEncourageAny({"Imp"}, 1), HardRequireAtLeastK({"Spy", "Baron"}, 3)>>,
                       <<[a |-> "Imp", b |-> "Baron", score |-> 2]>>, 1),
      RandomizerConfig(<<>>,
                       <<SoftEncourageAny({"Baron", "Spy"}, 2), HardRequireAny({"Baron", "Poisoner"})>>,
                       <<[a |-> "Imp", b |-> "Baron", score |-> 1]>>, 2),
      RandomizerConfig(WeightMap({<<"Baron", 2>>, <<"Washerwoman", 0>>}),
                       <<SoftPreferBetweenKAndL(Range(OUTSIDERS_TB), 1, 1, 1),
                         HardForbidAll({"Poisoner", "Washerwoman"})>>,
                       <<[a |-> "Imp", b |-> "Spy", score |-> -3]>>, 1),
      RandomizerConfig(<<>>, <<SoftDiscourageAll({"Imp"}, 3), HardRequireAny({"Baron"})>>,
                       <<[a |-> "Imp", b |-> "Baron", score |-> 5]>>, 0),
      RandomizerConfig(WeightMap({<<"Poisoner", 0>>, <<"Spy", -1>>, <<"Scarlet Woman", 0>>}),
                       <<>>, <<>>, 1),
      RandomizerConfig(WeightMap({<<"Imp", 0>>}), <<HardRequireAny({"Marionette"})>>, <<>>, 1),
      RandomizerConfig(WeightMap({<<"Marionette", 2>>}), <<>>, <<>>, 1) }

\* a call of generate_setup_trouble_brewing(n_players, rng, config, max_attempts)
InitGenerator ==
    /\ pc = "start"
    /\ err = NoError
    /\ rng \in RngStates(GenTapeLen)
    /\ n_players \in 4..16
    /\ config \in GenConfigs
    /\ max_attempts \in 0..MaxAttempts
    /\ attempts = 0
    /\ base = None
    /\ weights = <<>>
    /\ best_seen = None
    /\ best_log_score = NegInf
    /\ max_log_score_seen = InitialMaxLogScore
    /\ result = None
    /\ last = None
    /\ scored = <<>>
    /\ IdleSampler /\ IdleScorer

\* lines 37-48: the base counts and the weight map, or the ValueError of either
Start ==
    /\ pc = "start"
    /\ LET b == get_base_counts(n_players)
           e == IF b.err # NoError THEN b.err ELSE CheckWeights(config.role_weights)
       IN  IF e # NoError
           THEN /\ pc' = "raised"
                /\ err' = e
                /\ UNCHANGED <<base, weights>>
           ELSE /\ pc' = "loop"
                /\ err' = err
                /\ base' = Some(b.counts)
                /\ weights' = FillWeights(config.role_weights)
    /\ UNCHANGED <<rng, items, k, available, chosen, draws, scorerVars,
                   n_players, config, max_attempts, attempts,
                   best_seen, best_log_score, max_log_score_seen, result, last, scored>>

\* a faulty variant: the loop runs one iteration past the budget
Mut_LoopContinues(done, budget) == done <= budget

\* line 50: for _ in range(max_attempts) has another iteration to run
LoopContinues(done, budget) == done < budget

\* line 62: roles_in_play
RolesInPlay(p) ==
    Range(p.demons) \cup Range(p.outsiders) \cup Range(p.townfolk) \cup p.minions

\* lines 69-74: feasible and log_score = logw_constraints + logw_synergy
ScoreOf(rs, context, cfg) ==
    LET ev == evaluate_constraints(rs, context, cfg.constraints)
    IN  [feasible |-> ev.feasible,
         log_score |-> ev.score.v
                       + log_score_from_synergies(rs, cfg.synergies, cfg.synergy_temperature)]

\* lines 62-97: what one iteration computes from its proposal p, candidate set rs
\* and score sc: the updated normaliser, the acceptance probability and the
\* value u drawn for it
AttemptRecord(p, rs, sc, seen) ==
    [err |-> p.err,
     rng |-> p.rng,
     feasible |-> sc.feasible,
     roles_in_play |-> rs,
     counts |-> p.counts,
     proposal |-> ProposalDict(p),
     log_score |-> sc.log_score,
     new_max |-> UpdatedMax(sc.log_score, seen),
     accept_p |-> AcceptP(sc.log_score, UpdatedMax(sc.log_score, seen)),
     u |-> Random(p.rng)]

\* lines 62-74: the candidate set and the context of proposal p, scored
ScoreProposal(p, cfg, n, seen) ==
    AttemptRecord(p, RolesInPlay(p),
                  ScoreOf(RolesInPlay(p), [n_players |-> n, counts |-> p.counts], cfg),
                  seen)

\* lines 52-97: everything one iteration computes
AttemptBody(g, b, w, cfg, n, seen) == ScoreProposal(Propose(g, b, w), cfg, n, seen)

\* lines 50-99: one iteration of for _ in range(max_attempts).  last records the
\* attempt and scored the log_scores computed so far
Attempt ==
    /\ pc = "loop"
    /\ LoopContinues(attempts, max_attempts)
    /\ attempts' = attempts + 1
    /\ \E a \in {AttemptBody(rng, base[1], weights, config, n_players, max_log_score_seen)} :
           IF a.err # NoError
           THEN /\ pc' = "raised"
                /\ err' = a.err
                /\ UNCHANGED <<rng, best_seen, best_log_score, max_log_score_seen,
                               result, last, scored>>
           ELSE IF ~a.feasible
           THEN /\ pc' = "loop"
                /\ rng' = a.rng
                /\ last' = Some([feasible |-> FALSE, roles_in_play |-> a.roles_in_play,
                                 counts |-> a.counts, proposal |-> a.proposal,
                                 log_score |-> 0, accept_p |-> 0, u |-> 0])
                /\ UNCHANGED <<err, best_seen, best_log_score, max_log_score_seen,
                               result, scored>>
           ELSE /\ rng' = Advance(a.rng)
                /\ best_seen' = IF Gt(Fin(a.log_score), best_log_score)
                                THEN Some(a.proposal) ELSE best_seen
                /\ best_log_score' = IF Gt(Fin(a.log_score), best_log_score)
                                     THEN Fin(a.log_score) ELSE best_log_score
                /\ max_log_score_seen' = a.new_max
                /\ last' = Some([feasible |-> TRUE, roles_in_play |-> a.roles_in_play,
                                 counts |-> a.counts, proposal |-> a.proposal,
                                 log_score |-> a.log_score, accept_p |-> a.accept_p,
                                 u |-> a.u])
                /\ scored' = Append(scored, a.log_score)
                /\ err' = err
                /\ IF Accepts(a.u, a.accept_p)
                   THEN /\ pc' = "returned"
                        /\ result' = Some(a.proposal)
                   ELSE /\ pc' = "loop"
                        /\ result' = result
    /\ UNCHANGED <<items, k, weights, available, chosen, draws, scorerVars,
                   n_players, config, max_attempts, base>>

\* lines 101-103: after the loop, raise RuntimeError or return best_seen
Exhaust ==
    /\ pc = "loop"
    /\ ~LoopContinues(attempts, max_attempts)
    /\ IF best_seen = None
       THEN /\ pc' = "raised"
            /\ err' = RuntimeError("Failed to generate any valid setup; constraints may be too strict.")
            /\ result' = result
       ELSE /\ pc' = "returned"
            /\ err' = err
            /\ result' = best_seen
    /\ UNCHANGED <<rng, samplerVars, scorerVars,
                   n_players, config, max_attempts, attempts, base,
                   best_seen, best_log_score, max_log_score_seen, last, scored>>

NextGenerator == Start \/ Attempt \/ Exhaust

Spec == InitGenerator /\ [][NextGenerator]_vars

----------------------------------------------------------------------------
(* Properties of weighted_choice_without_replacement, under SpecSampler *)

NoDuplicates(s) == \A i, j \in 1..Len(s) : i # j => s[i] # s[j]

\* C6: a call that returns gives exactly k pairwise distinct elements of items,
\* and the j-th element of the list is the item popped by the j-th draw
C6_SampleIsKDistinctInDrawOrder ==
    pc = "returned" =>
        /\ err = NoError
        /\ Len(chosen) = k
        /\ Len(draws) = k
        /\ NoDuplicates(chosen)
        /\ Range(chosen) \subseteq Range(items)
        /\ \A j \in 1..Len(chosen) : chosen[j] = draws[j].pool[draws[j].idx]

\* C6: three items returned in an order that is not the order of items
C6_Witness ==
    /\ pc = "returned"
    /\ k = 3
    /\ chosen = <<"c", "a", "b">>

\* the exception class the sampler raises for a bad k
InvalidArgumentKind == CheckK(<<>>, -1).type

\* C7: a bad k raises invalid-argument before any draw, and weights that sum to 0
\* at some draw raise an error of another kind than invalid-argument
C7_ErrorKindsDiffer ==
    /\ (pc # "entry" /\ (k < 0 \/ k > Len(items))) =>
           /\ pc = "raised"
           /\ err.type = InvalidArgumentKind
           /\ draws = <<>>
    /\ (pc = "raised" /\ 0 <= k /\ k <= Len(items)) =>
           /\ SumTo(ClampedWeights(available, weights), Len(available)) = 0
           /\ Len(chosen) < k
           /\ err.type # "none"
           /\ err.type # InvalidArgumentKind

\* C10: no draw pops an item of weight 0 from a pool that holds an item of
\* positive weight
C10_NeverPicksZeroWeight ==
    \A j \in 1..Len(draws) :
        LET ws == ClampedWeights(draws[j].pool, weights)
        IN  (\E i \in 1..Len(ws) : ws[i] > 0) => ws[draws[j].idx] > 0

----------------------------------------------------------------------------
(* Properties of the constraints and of evaluate_constraints, under SpecScorer *)

\* the positions of the constraints that are infeasible for roles
Infeasible == {i \in 1..Len(constraints) :
                  ~Evaluate(constraints[i], roles, ScorerContext).feasible}

RECURSIVE LogWeightSum(_)
\* the log_weights of constraints[1..n] for roles, added up
LogWeightSum(n) ==
    IF n = 0 THEN 0
    ELSE LogWeightSum(n - 1) + Evaluate(constraints[n], roles, ScorerContext).log_weight

\* C5: with an infeasible constraint the call returns (False, -inf) whatever
\* follows it, and no constraint after the first infeasible one is evaluated;
\* with none it returns (True, the sum of all log_weights)
C5_ShortCircuitOnFirstInfeasible ==
    /\ \A j \in 1..Len(called) :
           /\ called[j].i = j
           /\ \A i \in Infeasible : called[j].i <= i
    /\ pc = "returned" =>
           IF Infeasible # {}
           THEN /\ ret = Some([feasible |-> FALSE, score |-> NegInf])
                /\ Len(called) = MinOf(Infeasible)
           ELSE /\ ret = Some([feasible |-> TRUE, score |-> Fin(LogWeightSum(Len(constraints)))])
                /\ Len(called) = Len(constraints)

\* C5: the first of three constraints is infeasible and the two after it are not
\* evaluated, one of which is infeasible too
C5_Witness ==
    /\ pc = "returned"
    /\ Len(constraints) = 3
    /\ Infeasible = {1, 3}
    /\ Len(called) = 1
    /\ ret = Some([feasible |-> FALSE, score |-> NegInf])

\* the log_weight the table of the constraint protocol gives a soft constraint
TableLogWeight(c, rs) ==
    LET cnt == Cardinality(c.roleset \cap rs)
    IN  CASE c.kind = "SoftDiscourageAll" ->
                IF c.roleset \subseteq rs THEN 0 - Abs(c.amount) ELSE 0
          [] c.kind = "SoftEncourageAny" ->
                IF c.roleset \cap rs # {} THEN Abs(c.amount) ELSE 0
          [] c.kind = "SoftPreferBetweenKAndL" ->
                IF c.k <= cnt /\ cnt <= c.l THEN 0
                ELSE IF cnt < c.k THEN (0 - c.amount) * (c.k - cnt)
                ELSE (0 - c.amount) * (cnt - c.l)

SoftKinds == {"SoftDiscourageAll", "SoftEncourageAny", "SoftPreferBetweenKAndL"}

\* C8: every evaluate of a soft constraint returns feasible, with the log_weight
\* of the table (for a band, with its step > 0)
C8_SoftConstraintsFeasibleWithTableWeight ==
    \A j \in 1..Len(called) :
        LET c == constraints[called[j].i]
        IN  c.kind \in SoftKinds =>
                /\ called[j].r.feasible
                /\ (c.kind = "SoftPreferBetweenKAndL" => c.amount > 0) =>
                       called[j].r.log_weight = TableLogWeight(c, roles)

\* C8: one call that evaluates a penalised SoftDiscourageAll, a rewarded
\* SoftEncourageAny and a band missed from above
C8_Witness ==
    /\ Len(called) = 3
    /\ constraints[1].kind = "SoftDiscourageAll" /\ called[1].r.log_weight = -3
    /\ constraints[2].kind = "SoftEncourageAny" /\ called[2].r.log_weight = 2
    /\ constraints[3].kind = "SoftPreferBetweenKAndL"
    /\ Cardinality(constraints[3].roleset \cap roles) > constraints[3].l
    /\ called[3].r.log_weight = -2

----------------------------------------------------------------------------
(* Properties of generate_setup_trouble_brewing, under Spec *)

\* the roles of a setup
RolesOf(setup) ==
    Range(setup.townfolk) \cup Range(setup.outsiders)
    \cup Range(setup.minions) \cup Range(setup.demons)

\* every constraint of config judges the candidate set rs feasible
AllFeasible(rs) ==
    \A i \in 1..Len(config.constraints) :
        Evaluate(config.constraints[i], rs, ScorerContext).feasible

\* C1: the setup returned and best_seen come from attempts that every constraint
\* judged feasible, and an attempt with an infeasible constraint is neither
C1_OnlyFeasibleAttemptsKept ==
    /\ result # None => AllFeasible(RolesOf(result[1]))
    /\ best_seen # None => AllFeasible(RolesOf(best_seen[1]))
    /\ (last # None /\ ~AllFeasible(last[1].roles_in_play)) =>
           /\ ~last[1].feasible
           /\ result # Some(last[1].proposal)
           /\ best_seen # Some(last[1].proposal)

\* C1: a setup returned after an earlier attempt was discarded, under a
\* configuration with a hard constraint behind a soft one
C1_Witness ==
    /\ pc = "returned"
    /\ attempts >= 2
    /\ Len(config.constraints) >= 2
    /\ result = Some(last[1].proposal)
    /\ last[1].log_score # 0

\* a hard constraint no candidate set satisfies: a RequireAny whose roleset has no
\* role of the script, a RequireAtLeastK that asks for more roles than its roleset
\* has in the script, a ForbidAll of no role
Unsatisfiable(c) ==
    \/ c.kind = "HardRequireAny" /\ c.roleset \cap Range(ALL_ROLES_TB) = {}
    \/ c.kind = "HardRequireAtLeastK"
       /\ Cardinality(c.roleset \cap Range(ALL_ROLES_TB)) < c.k
    \/ c.kind = "HardForbidAll" /\ c.roleset = {}

HasUnsatisfiable ==
    \E i \in 1..Len(config.constraints) : Unsatisfiable(config.constraints[i])

\* the arguments pass the checks of the generator and leave every role a positive
\* weight, so that no draw of the sampler can fail
ArgumentsDrawable ==
    /\ n_players \in DOMAIN BASE_COUNTS
    /\ CheckWeights(config.role_weights) = NoError
    /\ \A r \in Range(ALL_ROLES_TB) : FillWeights(config.role_weights)[r] > 0

\* with an unsatisfiable hard constraint no setup is returned or kept and no
\* attempt is scored, the attempts never exceed max_attempts, the
\* infeasible-configuration error is raised only after exactly max_attempts
\* attempts, and with drawable arguments it is the error the call ends with
UnsatisfiableNeverReturns ==
    HasUnsatisfiable =>
        /\ result = None
        /\ pc # "returned"
        /\ scored = <<>>
        /\ best_seen = None
        /\ attempts <= max_attempts
        /\ (pc = "raised" /\ err.type = "RuntimeError") => attempts = max_attempts
        /\ (pc = "raised" /\ ArgumentsDrawable) => err.type = "RuntimeError"

\* an iteration of the loop either consumes one unit of the budget or ends the call
IterationConsumesBudget ==
    pc = "loop" => (attempts' = attempts + 1 \/ pc' = "raised")

\* C2: with an unsatisfiable hard constraint the call returns no setup, every
\* iteration consumes the budget, the attempts never exceed max_attempts, and the
\* call ends by raising the infeasible-configuration error after exactly
\* max_attempts attempts
C2_UnsatisfiableExhaustsBudget ==
    /\ []UnsatisfiableNeverReturns
    /\ [][HasUnsatisfiable => IterationConsumesBudget]_vars

\* C2: the infeasible-configuration error after the largest budget of attempts
C2_Witness ==
    /\ HasUnsatisfiable
    /\ ArgumentsDrawable
    /\ pc = "raised"
    /\ err.type = "RuntimeError"
    /\ max_attempts = MaxAttempts
    /\ attempts = max_attempts
    /\ last # None

\* C3: a feasible attempt whose score is at least every score computed before it
\* has acceptance probability 1 and is the setup returned
C3_RunningMaximumAccepted ==
    (/\ last # None
     /\ last[1].feasible
     /\ \A j \in 1..(Len(scored) - 1) : scored[j] <= last[1].log_score) =>
        /\ last[1].accept_p = 1000
        /\ pc = "returned"
        /\ result = Some(last[1].proposal)

\* C3: such an attempt accepted on the largest value the random source returns
C3_Witness ==
    /\ pc = "returned"
    /\ last[1].feasible
    /\ last[1].u = UDen - 1
    /\ last[1].accept_p = 1000
    /\ last[1].log_score > 0

\* a sequence of roles of one category: distinct and of the category's list
InCategory(s, category) == NoDuplicates(s) /\ Range(s) \subseteq Range(category)

\* C4: with no constraints the setup returned has the base minion and demon
\* counts, the base townsfolk and outsider counts or, with Baron among the
\* minions, two townsfolk fewer and two outsiders more, distinct roles of each
\* category's list, and n_players roles in all
C4_ReturnedCountsFollowBaseAndBaron ==
    (pc = "returned" /\ config.constraints = <<>>) =>
        LET r == result[1]
            b == BASE_COUNTS[n_players]
            baron == "Baron" \in Range(r.minions)
        IN  /\ n_players \in 5..15
            /\ Len(r.minions) = b.mn
            /\ Len(r.demons) = b.dm
            /\ Len(r.townfolk) = IF baron THEN b.tf - 2 ELSE b.tf
            /\ Len(r.outsiders) = IF baron THEN b.out + 2 ELSE b.out
            /\ InCategory(r.townfolk, TOWNFOLK_TB)
            /\ InCategory(r.outsiders, OUTSIDERS_TB)
            /\ InCategory(r.minions, MINIONS_TB)
            /\ InCategory(r.demons, DEMONS_TB)
            /\ Cardinality(RolesOf(r)) = n_players
            /\ Len(r.townfolk) + Len(r.outsiders) + Len(r.minions) + Len(r.demons)
               = n_players

\* C4: seven players with Baron drawn: 3 townsfolk, 2 outsiders, 1 minion, 1 demon
C4_Witness ==
    /\ pc = "returned"
    /\ config = DefaultConfig
    /\ n_players = 7
    /\ result[1].minions = <<"Baron">>
    /\ Len(result[1].townfolk) = 3
    /\ Len(result[1].outsiders) = 2
    /\ Len(result[1].demons) = 1

====
